---- MODULE Spec2Model ----
(***************************************************************************)
(* PreprocessRaw (src/src/modeling/preprocess_raw.py): a pipeline object   *)
(* wrapping one pandas DataFrame, self.df, and the operations that clean   *)
(* it.  A frame is its row index and its sequence of columns; a column is  *)
(* a name, a dtype and one value per row.                                  *)
(***************************************************************************)
EXTENDS Integers, Sequences, FiniteSets, TLC

VARIABLES
  df,      \* self.df
  input,   \* the frame the object was constructed with
  cfg,     \* max_categories, null_threshold, corr_threshold
  op,      \* the operation applied last ("init" before any)
  arg,     \* the arguments of that operation
  picks,   \* remove_correlated_raw: the (colname, othercolname) chosen, in order
  pc,      \* applyall_raw / applyall_predict: the mode and the next stage
  log      \* the stages the applyall_* call has run, in order

vars == <<df, input, cfg, op, arg, picks, pc, log>>

-----------------------------------------------------------------------------
(* Values.  A cell is missing (None / NaN), a number or a string. *)

Null == [t |-> "null", n |-> 0, s |-> <<>>]
Num(k) == [t |-> "num", n |-> k, s |-> <<>>]
Str(w) == [t |-> "str", n |-> 0, s |-> w]
IsNull(v) == v.t = "null"

Column(name, dtype, vals) == [name |-> name, dtype |-> dtype, vals |-> vals]
Frame(index, cols) == [index |-> index, cols |-> cols]

Names(d) == [c \in 1..Len(d.cols) |-> d.cols[c].name]
NameSet(d) == {d.cols[c].name : c \in 1..Len(d.cols)}
HasCol(d, name) == name \in NameSet(d)
Col(d, name) == d.cols[CHOOSE c \in 1..Len(d.cols) : d.cols[c].name = name]
NRows(d) == Len(d.index)
Range(s) == {s[i] : i \in 1..Len(s)}
UniqueNames(d) ==
  \A a, b \in 1..Len(d.cols) : d.cols[a].name = d.cols[b].name => a = b

\* The elements of s at the positions where mask is TRUE, in order.
Take(s, mask) ==
  LET F[i \in 0..Len(s)] ==
        IF i = 0 THEN <<>>
        ELSE IF mask[i] THEN Append(F[i-1], s[i]) ELSE F[i-1]
  IN F[Len(s)]

\* df[mask]: the rows where mask is TRUE.
SelectRows(d, mask) ==
  Frame(Take(d.index, mask),
        [c \in 1..Len(d.cols) |-> [d.cols[c] EXCEPT !.vals = Take(@, mask)]])

\* df.drop(names, axis=1): every column whose name is in names goes.
DropCols(d, names) ==
  Frame(d.index, Take(d.cols, [c \in 1..Len(d.cols) |-> d.cols[c].name \notin names]))

RECURSIVE SumOver(_, _)
SumOver(f, S) ==
  IF S = {} THEN 0
  ELSE LET x == CHOOSE x \in S : TRUE IN f[x] + SumOver(f, S \ {x})

-----------------------------------------------------------------------------
(* Column names are sequences of characters, so that sorting, splitting and
   prefixing act on them as the code's string operations do. *)
frn_adjusted == <<"f","r","n","_","a","d","j","u","s","t","e","d">>
basic_firewall_protection == <<"b","a","s","i","c","_","f","i","r","e","w","a","l","l","_","p","r","o","t","e","c","t","i","o","n">>
fiber_type == <<"f","i","b","e","r","_","t","y","p","e">>
fiber_sub_type == <<"f","i","b","e","r","_","s","u","b","_","t","y","p","e">>
cost == <<"c","o","s","t">>
purpose == <<"p","u","r","p","o","s","e">>
purpose_adj == <<"p","u","r","p","o","s","e","_","a","d","j">>
postal_cd == <<"p","o","s","t","a","l","_","c","d">>
connect_type == <<"c","o","n","n","e","c","t","_","t","y","p","e">>

\* the columns to be dropped that could never be useful
drop_cols ==
  << <<"i","d">>,
     <<"f","r","n">>,
     <<"f","r","n","_","n","u","m","b","e","r","_","f","r","o","m","_","t","h","e","_","p","r","e","v","i","o","u","s","_","y","e","a","r">>,
     <<"a","p","p","l","i","c","a","t","i","o","n","_","n","u","m","b","e","r">>,
     <<"b","e","n">>,
     <<"a","c","c","o","u","n","t","_","n","u","m","b","e","r">>,
     <<"s","e","r","v","i","c","e","_","p","r","o","v","i","d","e","r","_","n","u","m","b","e","r">>,
     <<"e","s","t","a","b","l","i","s","h","i","n","g","_","f","c","c","_","f","o","r","m","4","7","0">>,
     <<"u","s","e","r","_","e","n","t","e","r","e","d","_","e","s","t","a","b","l","i","s","h","i","n","g","_","f","c","c","_","f","o","r","m","4","7","0">>,
     <<"l","i","n","e","_","i","t","e","m">>,
     <<"a","w","a","r","d","_","d","a","t","e">>,
     <<"e","x","p","i","r","a","t","i","o","n","_","d","a","t","e">>,
     <<"c","o","n","t","r","a","c","t","_","e","x","p","i","r","a","t","i","o","n","_","d","a","t","e">>,
     <<"s","e","r","v","i","c","e","_","s","t","a","r","t","_","d","a","t","e">>,
     <<"m","o","d","e","l">>,
     <<"c","o","n","t","r","a","c","t","_","n","u","m","b","e","r">>,
     <<"r","e","s","t","r","i","c","t","i","o","n","_","c","i","t","a","t","i","o","n">>,
     <<"o","t","h","e","r","_","m","a","n","u","f","a","c","t","u","r","e">>,
     <<"d","o","w","n","l","o","a","d","_","s","p","e","e","d">>,
     <<"d","o","w","n","l","o","a","d","_","s","p","e","e","d","_","u","n","i","t","s">>,
     <<"u","p","l","o","a","d","_","s","p","e","e","d">>,
     <<"u","p","l","o","a","d","_","s","p","e","e","d","_","u","n","i","t","s">>,
     <<"b","u","r","s","t","a","b","l","e","_","s","p","e","e","d">>,
     <<"b","u","r","s","t","a","b","l","e","_","s","p","e","e","d","_","u","n","i","t","s">>,
     <<"p","u","r","p","o","s","e">>,
     <<"b","i","l","l","e","d","_","e","n","t","i","t","y","_","n","a","m","e">>,
     <<"t","y","p","e","_","o","f","_","p","r","o","d","u","c","t">>,
     <<"u","p","d","a","t","e","d","_","a","t">>,
     <<"c","r","e","a","t","e","d","_","a","t">>,
     <<"e","x","t","e","n","d","e","d","_","c","o","n","t","r","a","c","t","_","e","x","p","i","r","a","t","i","o","n","_","d","a","t","e">>,
     <<"w","i","n","d","o","w","_","s","t","a","t","u","s">> >>

\* the columns that are yes/no
yn_cols ==
  << <<"c","o","n","n","e","c","t","i","o","n","_","s","u","p","p","o","r","t","s","_","s","c","h","o","o","l","_","l","i","b","r","a","r","y","_","o","r","_","n","i","f">>,
     <<"i","n","c","l","u","d","e","s","_","v","o","l","u","n","t","a","r","y","_","e","x","t","e","n","s","i","o","n","s">>,
     <<"b","a","s","i","c","_","f","i","r","e","w","a","l","l","_","p","r","o","t","e","c","t","i","o","n">>,
     <<"b","a","s","e","d","_","o","n","_","s","t","a","t","e","_","m","a","s","t","e","r","_","c","o","n","t","r","a","c","t">>,
     <<"b","a","s","e","d","_","o","n","_","m","u","l","t","i","p","l","e","_","a","w","a","r","d","_","s","c","h","e","d","u","l","e">>,
     <<"p","r","i","c","i","n","g","_","c","o","n","f","i","d","e","n","t","i","a","l","i","t","y">>,
     <<"l","e","a","s","e","_","o","r","_","n","o","n","_","p","u","r","c","h","a","s","e","_","a","g","r","e","e","m","e","n","t">>,
     <<"c","o","n","n","e","c","t","e","d","_","d","i","r","e","c","t","l","y","_","t","o","_","s","c","h","o","o","l","_","l","i","b","r","a","r","y","_","o","r","_","n","i","f">>,
     <<"w","a","s","_","f","c","c","_","f","o","r","m","4","7","0","_","p","o","s","t","e","d">>,
     <<"f","r","n","_","p","r","e","v","i","o","u","s","_","y","e","a","r","_","e","x","i","s","t","s">> >>

\* the columns that don't need the float conversion
cat_cols ==
  << <<"p","r","i","c","i","n","g","_","c","o","n","f","i","d","e","n","t","i","a","l","i","t","y","_","t","y","p","e">>,
     <<"f","i","b","e","r","_","t","y","p","e">>,
     <<"c","o","n","n","e","c","t","i","o","n","_","u","s","e","d","_","b","y">>,
     <<"f","i","b","e","r","_","s","u","b","_","t","y","p","e">>,
     <<"p","u","r","p","o","s","e">>,
     <<"u","n","i","t">>,
     <<"f","u","n","c","t","i","o","n">>,
     <<"p","o","s","t","a","l","_","c","d">>,
     <<"b","i","l","l","e","d","_","e","n","t","i","t","y","_","t","y","p","e">>,
     <<"s","o","u","r","c","e","_","o","f","_","m","a","t","c","h","i","n","g","_","f","u","n","d","s">>,
     <<"c","o","n","t","r","a","c","t","_","t","y","p","e">> >>

-----------------------------------------------------------------------------
(* __init__ *)

default_max_categories == 12
DefaultCfg ==
  [max_categories |-> default_max_categories,
   null_threshold |-> <<37, 50>>,   \* .74
   corr_threshold |-> <<9, 10>>]    \* .9

\* No applyall_* call is under way.
Idle == [mode |-> "none", at |-> 0, returned |-> FALSE]

Start(d, c) ==
  /\ df = d
  /\ input = d
  /\ cfg = c
  /\ op = "init"
  /\ arg = <<>>
  /\ picks = <<>>
  /\ pc = Idle
  /\ log = <<>>

-----------------------------------------------------------------------------
(* remove_row_duplicates *)

\* groupby(['frn_adjusted']).size(): the rows holding v.  groupby leaves the
\* missing keys out, so a missing identifier is in no group.
GroupSize(ids, v) == Cardinality({i \in 1..Len(ids) : ids[i] = v})

DuplicatedIds(ids) ==
  {ids[i] : i \in {k \in 1..Len(ids) : ~IsNull(ids[k]) /\ GroupSize(ids, ids[k]) >= 2}}

\* A keep-first dedup (drop_duplicates): the first row of each group stays.
remove_row_duplicates_keep_first(d) ==
  LET ids == Col(d, frn_adjusted).vals
  IN SelectRows(d, [i \in 1..Len(ids) |->
                      IsNull(ids[i]) \/ ~\E k \in 1..(i-1) : ids[k] = ids[i]])

remove_row_duplicates(d) ==
  LET ids == Col(d, frn_adjusted).vals
      dups == DuplicatedIds(ids)
  IN SelectRows(d, [i \in 1..Len(ids) |-> ids[i] \notin dups])

RemoveRowDuplicates ==
  /\ op = "init"
  /\ HasCol(df, frn_adjusted)
  /\ df' = remove_row_duplicates(df)
  /\ op' = "remove_row_duplicates"
  /\ UNCHANGED <<input, cfg, arg, picks, pc, log>>

-----------------------------------------------------------------------------
(* Strings *)

\* The characters the model uses, in code-point order.
Chars ==
  << " ", "/", "0", "1", "2", "3", "4", "5", "6", "7", "8", "9",
     "A", "B", "C", "D", "E", "F", "G", "H", "I", "J", "K", "L", "M",
     "N", "O", "P", "Q", "R", "S", "T", "U", "V", "W", "X", "Y", "Z",
     "_",
     "a", "b", "c", "d", "e", "f", "g", "h", "i", "j", "k", "l", "m",
     "n", "o", "p", "q", "r", "s", "t", "u", "v", "w", "x", "y", "z" >>
Ord(ch) == CHOOSE i \in 1..Len(Chars) : Chars[i] = ch
FirstUpper == Ord("A")
FirstLower == Ord("a")
IsUpper(ch) == Ord(ch) >= FirstUpper /\ Ord(ch) < FirstUpper + 26
IsDigit(ch) == Ord(ch) >= Ord("0") /\ Ord(ch) <= Ord("9")

\* a < b as Python compares strings, from position k on.
RECURSIVE StrLessFrom(_, _, _)
StrLessFrom(a, b, k) ==
  IF k > Len(b) THEN FALSE
  ELSE IF k > Len(a) THEN TRUE
  ELSE IF a[k] = b[k] THEN StrLessFrom(a, b, k + 1)
  ELSE Ord(a[k]) < Ord(b[k])

StrLess(a, b) == StrLessFrom(a, b, 1)

\* sorted(S) for a set of strings.
Sorted(S) ==
  [k \in 1..Cardinality(S) |->
     CHOOSE x \in S : Cardinality({y \in S : StrLess(y, x)}) = k - 1]

\* x.lower()
lower(w) ==
  [i \in 1..Len(w) |->
     IF IsUpper(w[i]) THEN Chars[Ord(w[i]) - FirstUpper + FirstLower] ELSE w[i]]

\* re.sub('\s+', '_', w): each run of whitespace becomes one underscore.
ReplaceWhitespace(w) ==
  LET F[i \in 0..Len(w)] ==
        IF i = 0 THEN <<>>
        ELSE IF w[i] # " " THEN Append(F[i-1], w[i])
        ELSE IF i > 1 /\ w[i-1] = " " THEN F[i-1]
        ELSE Append(F[i-1], "_")
  IN F[Len(w)]

\* re.sub('/', '_', w)
ReplaceSlash(w) == [i \in 1..Len(w) |-> IF w[i] = "/" THEN "_" ELSE w[i]]

\* col.split('_', 1)[0]
SplitHead(w) ==
  IF \E i \in 1..Len(w) : w[i] = "_"
    THEN SubSeq(w, 1, (CHOOSE i \in 1..Len(w) :
                         w[i] = "_" /\ \A k \in 1..(i-1) : w[k] # "_") - 1)
    ELSE w

\* w.strip()
Strip(w) ==
  LET ink == {i \in 1..Len(w) : w[i] # " "}
  IN IF ink = {} THEN <<>>
     ELSE SubSeq(w, CHOOSE i \in ink : \A k \in ink : i <= k,
                    CHOOSE i \in ink : \A k \in ink : i >= k)

\* float(w) succeeds: here, on the decimal digit strings (blanks around them
\* allowed).
Parses(w) ==
  LET u == Strip(w) IN Len(u) > 0 /\ \A i \in 1..Len(u) : IsDigit(u[i])

\* float(w) for such a string.
ParseFloat(w) ==
  LET u == Strip(w)
      F[i \in 0..Len(u)] ==
        IF i = 0 THEN 0 ELSE 10 * F[i-1] + (Ord(u[i]) - Ord("0"))
  IN F[Len(u)]

-----------------------------------------------------------------------------
(* remove_column_nulls: dropna(axis=1, how='all') *)

AllNull(c) == \A r \in 1..Len(c.vals) : IsNull(c.vals[r])

remove_column_nulls(d) ==
  DropCols(d, {d.cols[c].name : c \in {k \in 1..Len(d.cols) : AllNull(d.cols[k])}})


-----------------------------------------------------------------------------
(* duplicate_columns, remove_column_duplicates *)

KeyOrders(n) ==
  {f \in [1..n -> 1..n] : \A a, b \in 1..n : f[a] = f[b] => a = b}

\* vs[i] == vs[j] on two lists out of to_dict(orient="list"): element by
\* element, by identity or by ==.  A float64 column's tolist() makes a fresh
\* float per cell, and nan != nan; the None of an object column is one object.
ListEq(dtype, a, b) ==
  \A r \in 1..Len(a) : a[r] = b[r] /\ ~(dtype = "float64" /\ IsNull(a[r]))

\* dups.append(ks[j]) for dups.append(ks[i]): the later of an equal pair goes.
duplicate_columns_later(d, order) ==
  {d.cols[order[j]].name :
     j \in {k \in 1..Len(order) :
              \E i \in 1..(k-1) :
                /\ d.cols[order[k]].dtype = d.cols[order[i]].dtype
                /\ \A r \in 1..Len(d.index) :
                     /\ d.cols[order[k]].vals[r] = d.cols[order[i]].vals[r]
                     /\ ~(d.cols[order[k]].dtype = "float64"
                          /\ d.cols[order[k]].vals[r].t = "null")}}

\* order: the positions of the columns in the order the dictionaries of
\* to_dict(orient="list") list their keys.  The columns of one dtype are
\* compared among themselves, in that order; the earlier of an equal pair is
\* a duplicate.
duplicate_columns(d, order) ==
  {d.cols[order[i]].name :
     i \in {k \in 1..Len(order) :
              \E j \in (k+1)..Len(order) :
                /\ d.cols[order[k]].dtype = d.cols[order[j]].dtype
                /\ ListEq(d.cols[order[k]].dtype,
                          d.cols[order[k]].vals, d.cols[order[j]].vals)}}

\* df.loc[:, ~df.columns.duplicated()]: the first column of each name stays.
DropRepeatedNames(d) ==
  Frame(d.index,
        Take(d.cols, [c \in 1..Len(d.cols) |->
                        ~\E k \in 1..(c-1) : d.cols[k].name = d.cols[c].name]))

remove_column_duplicates(d, order) ==
  DropRepeatedNames(DropCols(d, duplicate_columns(d, order)))

\* The order of a dict's keys is that of their hashes (the code is Python 2:
\* print statements, vs[i] on dict.values()), so any order can come out.
RemoveColumnDuplicates ==
  /\ op = "init"
  /\ UniqueNames(df)
  /\ \E order \in KeyOrders(Len(df.cols)) :
       /\ df' = remove_column_duplicates(df, order)
       /\ arg' = order
  /\ op' = "remove_column_duplicates"
  /\ UNCHANGED <<input, cfg, picks, pc, log>>

-----------------------------------------------------------------------------
(* remove_no_var *)

\* pd.Series.nunique: the distinct values of the column, the missing left out.
nunique(c) == Cardinality({v \in Range(c.vals) : ~IsNull(v)})

\* Zero variance taken to need two rows: a frame of one row is left alone.
remove_no_var_multirow(d) ==
  IF Len(d.index) < 2 THEN d
  ELSE DropCols(d, {d.cols[c].name :
                      c \in {k \in 1..Len(d.cols) :
                               Cardinality({v \in Range(d.cols[k].vals) : v.t # "null"}) = 1}})

remove_no_var(d) ==
  DropCols(d, {d.cols[c].name : c \in {k \in 1..Len(d.cols) : nunique(d.cols[k]) = 1}})


-----------------------------------------------------------------------------
(* remove_drops_raw *)

remove_drops_raw(d) == DropCols(d, Range(drop_cols))


-----------------------------------------------------------------------------
(* rename_col: df.rename(columns = {col: new_name}) *)

rename_col(d, col, new_name) ==
  Frame(d.index,
        [c \in 1..Len(d.cols) |->
           IF d.cols[c].name = col THEN [d.cols[c] EXCEPT !.name = new_name]
           ELSE d.cols[c]])

-----------------------------------------------------------------------------
(* convert_floats, convert_floats_raw *)

\* float(v) raises for v
FloatFails(v) == v.t = "str" /\ ~Parses(v.s)
\* float(v) otherwise; None becomes nan
ToFloat(v) == IF v.t = "str" THEN Num(ParseFloat(v.s)) ELSE v

\* self.df[col].astype(float) inside the try: the whole column converts, or
\* the exception leaves self.df[col] as it was.
AsTypeFloat(c) ==
  IF \E r \in 1..Len(c.vals) : FloatFails(c.vals[r]) THEN c
  ELSE Column(c.name, "float64", [r \in 1..Len(c.vals) |-> ToFloat(c.vals[r])])

\* break for continue: the loop ends at the first column that fails.
convert_floats_break(d, cats) ==
  LET failed(c) == d.cols[c].name \notin Range(cats)
                   /\ \E r \in 1..Len(d.cols[c].vals) : FloatFails(d.cols[c].vals[r])
  IN Frame(d.index,
           [c \in 1..Len(d.cols) |->
              IF d.cols[c].name \in Range(cats) \/ \E k \in 1..c : failed(k)
                THEN d.cols[c]
                ELSE AsTypeFloat(d.cols[c])])

convert_floats(d, cats) ==
  Frame(d.index,
        [c \in 1..Len(d.cols) |->
           IF d.cols[c].name \in Range(cats) THEN d.cols[c]
           ELSE AsTypeFloat(d.cols[c])])

convert_floats_raw(d) == convert_floats(d, cat_cols)

-----------------------------------------------------------------------------
(* convert_yn, convert_yn_raw *)

Yes == <<"Y", "e", "s">>
No == <<"N", "o">>

YnValue(v) ==
  IF v = Str(Yes) THEN Num(1)
  ELSE IF v = Str(No) THEN Num(0)
  ELSE IF v = Num(1) THEN Num(1)
  ELSE IF v = Num(0) THEN Num(0)
  ELSE Null

\* The dtype pandas gives a column assigned from a list of 1, 0 and None.
ListDtype(vals) ==
  IF \A r \in 1..Len(vals) : IsNull(vals[r])
    THEN IF Len(vals) = 0 THEN "float64" ELSE "object"
  ELSE IF \E r \in 1..Len(vals) : IsNull(vals[r]) THEN "float64"
  ELSE "int64"

convert_yn(d, col) ==
  Frame(d.index,
        [c \in 1..Len(d.cols) |->
           IF d.cols[c].name = col
             THEN LET var_corrected ==
                        [r \in 1..Len(d.cols[c].vals) |-> YnValue(d.cols[c].vals[r])]
                  IN Column(col, ListDtype(var_corrected), var_corrected)
             ELSE d.cols[c]])

convert_yn_raw(d) ==
  LET F[i \in 0..Len(yn_cols)] ==
        IF i = 0 THEN d
        ELSE LET cur == F[i-1]
             IN IF HasCol(cur, yn_cols[i]) THEN convert_yn(cur, yn_cols[i]) ELSE cur
  IN F[Len(yn_cols)]

-----------------------------------------------------------------------------
(* convert_dummies, convert_dummies_raw *)

\* The two statements at the top of the loop, on one cell.
Normalize(v) ==
  IF v.t = "str" THEN Str(ReplaceSlash(ReplaceWhitespace(lower(v.s)))) ELSE v

NormalizeCols(d, cols) ==
  Frame(d.index,
        [c \in 1..Len(d.cols) |->
           IF d.cols[c].name \in Range(cols)
             THEN [d.cols[c] EXCEPT !.vals = [r \in 1..Len(@) |-> Normalize(@[r])]]
             ELSE d.cols[c]])

\* The labels of a column: its distinct values, the missing left out.
Levels(c) == {v.s : v \in {x \in Range(c.vals) : ~IsNull(x)}}

\* self.df.groupby(col).size().reset_index().shape[0]
Cardinality_of(d, col) == Cardinality(Levels(Col(d, col)))

\* < for <=: a column of exactly max_categories labels is not encoded.
SelectedStrict(d, col, max_categories) ==
  \/ Cardinality(Levels(Col(d, col))) < max_categories
  \/ col = postal_cd
  \/ col = connect_type

Selected(d, col, max_categories) ==
  \/ Cardinality_of(d, col) <= max_categories
  \/ col = postal_cd
  \/ col = connect_type

\* The indicator columns get_dummies makes of column c under a prefix: one
\* per label, in sorted order, named prefix_label.
Dummies(c, prefix) ==
  LET lv == Sorted(Levels(c))
  IN [k \in 1..Len(lv) |->
        Column(prefix \o <<"_">> \o lv[k], "uint8",
               [r \in 1..Len(c.vals) |->
                  IF c.vals[r] = Str(lv[k]) THEN Num(1) ELSE Num(0)])]

\* pd.get_dummies(df, columns=dummy_cols, prefix=...): the other columns,
\* then the indicators of each encoded column in the order of dummy_cols.
get_dummies(d, dummy_cols) ==
  LET rest == DropCols(d, Range(dummy_cols)).cols
      F[i \in 0..Len(dummy_cols)] ==
        IF i = 0 THEN rest
        ELSE F[i-1] \o Dummies(Col(d, dummy_cols[i]), SplitHead(dummy_cols[i]))
  IN Frame(d.index, F[Len(dummy_cols)])

convert_dummies(d, cols, max_categories) ==
  LET nd == NormalizeCols(d, cols)
      dummy_cols == SelectSeq(cols, LAMBDA col : Selected(nd, col, max_categories))
  IN get_dummies(nd, dummy_cols)

convert_dummies_raw(d, max_categories) ==
  LET cat_cols_no_bool ==
        SelectSeq(cat_cols, LAMBDA x : HasCol(d, x) /\ x \notin Range(yn_cols))
  IN convert_dummies(d, cat_cols_no_bool, max_categories)

-----------------------------------------------------------------------------
(* summary, remove_mostly_nulls *)

\* sum(pd.isnull(vals))
null_count(c) == Cardinality({r \in 1..Len(c.vals) : IsNull(c.vals[r])})

\* summary() divides the null count of each column by len(self.df): with a
\* column and no row that is a ZeroDivisionError.
SummaryRaises(d) == NRows(d) = 0 /\ d.cols # <<>>

\* <= for <: a column exactly at the threshold is kept.
MostlyNotNullInclusive(d, c, th) ==
  Cardinality({r \in 1..Len(c.vals) : c.vals[r].t = "null"}) * th[2] <= th[1] * Len(d.index)

\* null_pct < null_threshold, null_pct being null_count / (1.0*len(df)) and
\* the threshold the fraction th[1] / th[2].
MostlyNotNull(d, c, th) == null_count(c) * th[2] < th[1] * NRows(d)

remove_mostly_nulls(d, th) ==
  Frame(d.index,
        Take(d.cols, [c \in 1..Len(d.cols) |-> MostlyNotNull(d, d.cols[c], th)]))

-----------------------------------------------------------------------------
(* remove_correlated_raw *)

\* The columns s, sorted by name descending, with column c put in its place.
RECURSIVE InsertDesc(_, _)
InsertDesc(s, c) ==
  IF s = <<>> THEN <<c>>
  ELSE IF StrLess(Head(s).name, c.name) THEN <<c>> \o s
  ELSE <<Head(s)>> \o InsertDesc(Tail(s), c)

\* df.sort_index(ascending=False, axis=1): the columns by name, descending.
SortColsDesc(d) ==
  LET F[k \in 0..Len(d.cols)] ==
        IF k = 0 THEN <<>> ELSE InsertDesc(F[k-1], d.cols[k])
  IN Frame(d.index, F[Len(d.cols)])

\* df.loc[:, df.dtypes == float]
FloatCols(d) == SelectSeq(d.cols, LAMBDA c : c.dtype = "float64")

\* abs(corr_matrix.iloc[i, j]) >= corr_threshold for the Pearson correlation
\* of columns x and y over the rows where both have a value, the threshold
\* being th[1] / th[2].  With no variance on either side the correlation is
\* nan and the comparison False.
Pearson(n, sx, sy, sxx, syy, sxy) ==
  [cov |-> n * sxy - sx * sy, vx |-> n * sxx - sx * sx, vy |-> n * syy - sy * sy]

AtLeast(p, th) ==
  /\ p.vx > 0
  /\ p.vy > 0
  /\ p.cov * p.cov * th[2] * th[2] >= th[1] * th[1] * p.vx * p.vy

CorrOver(x, y, rows) ==
  Pearson(Cardinality(rows),
          SumOver([r \in rows |-> x.vals[r].n], rows),
          SumOver([r \in rows |-> y.vals[r].n], rows),
          SumOver([r \in rows |-> x.vals[r].n * x.vals[r].n], rows),
          SumOver([r \in rows |-> y.vals[r].n * y.vals[r].n], rows),
          SumOver([r \in rows |-> x.vals[r].n * y.vals[r].n], rows))

HighCorr(x, y, th) ==
  AtLeast(CorrOver(x, y, {r \in 1..Len(x.vals) :
                            ~IsNull(x.vals[r]) /\ ~IsNull(y.vals[r])}), th)

\* The column of the pair (colname1, colname2) = (sub[i], sub[j]) to drop.
ChooseDrop(c1, c2) ==
  IF null_count(c1) > null_count(c2)
    THEN [colname |-> c2.name, othercolname |-> c1.name]
    ELSE [colname |-> c1.name, othercolname |-> c2.name]

\* range(i-1) for range(i): the pair of neighbours (i, i-1) is never visited.
LowerTriangleShort(m) ==
  LET F[i \in 0..m] ==
        IF i <= 1 THEN <<>> ELSE F[i-1] \o [j \in 1..(i-2) |-> <<i, j>>]
  IN F[m]

\* The pairs (i, j), j < i, in the order the two loops visit them.
LowerTriangle(m) ==
  LET F[i \in 0..m] ==
        IF i = 0 THEN <<>> ELSE F[i-1] \o [j \in 1..(i-1) |-> <<i, j>>]
  IN F[m]

\* The body of the loops for one pair: st.df loses the chosen colname if it
\* still has it, st.picks records the choice.
CorrStep(st, c1, c2, th) ==
  IF HighCorr(c1, c2, th)
    THEN [df |-> IF HasCol(st.df, ChooseDrop(c1, c2).colname)
                   THEN DropCols(st.df, {ChooseDrop(c1, c2).colname})
                   ELSE st.df,
          picks |-> Append(st.picks, ChooseDrop(c1, c2))]
    ELSE st

CorrPairs(sorted, sub, pairs, th) ==
  LET F[k \in 0..Len(pairs)] ==
        IF k = 0 THEN [df |-> sorted, picks |-> <<>>]
        ELSE CorrStep(F[k-1], sub[pairs[k][1]], sub[pairs[k][2]], th)
  IN F[Len(pairs)]

CorrSorted(sorted, sub, th) == CorrPairs(sorted, sub, LowerTriangle(Len(sub)), th)

CorrFrom(sorted, th) == CorrSorted(sorted, FloatCols(sorted), th)

CorrLoop(d, th) == CorrFrom(SortColsDesc(d), th)

remove_correlated_raw(d, th) == CorrLoop(d, th).df

-----------------------------------------------------------------------------
(* Row deduplication on its own *)

RowsMaxRows == 4
RowsIds == {Null, Num(1), Num(2)}

RowsFrame(ids) ==
  Frame([i \in 1..Len(ids) |-> i],
        << Column(frn_adjusted,
                  IF \E i \in 1..Len(ids) : IsNull(ids[i]) THEN "float64" ELSE "int64",
                  ids),
           Column(cost, "int64", [i \in 1..Len(ids) |-> Num(i)]) >>)

\* The frames of at most n rows.
RowsInputs(n) ==
  {RowsFrame(ids) : ids \in UNION {[1..m -> RowsIds] : m \in 0..n}}

RowsInit == \E d \in RowsInputs(RowsMaxRows) : Start(d, DefaultCfg)
RowsNext == RemoveRowDuplicates
RowsSpec == RowsInit /\ [][RowsNext]_vars

\* C2: after remove_row_duplicates every identifier value that remains is in
\* exactly one row; a row whose identifier was in two or more rows is gone
\* (every row of the group), a row whose identifier was in one row is kept
\* with its values, and the rows removed number the sum of the full sizes of
\* the groups of two or more.  A missing identifier is no identifier value:
\* groupby puts it in no group, and its row stays.
RowDedupDropsWholeGroups ==
  op = "remove_row_duplicates" =>
    LET old == Col(input, frn_adjusted).vals
        new == Col(df, frn_adjusted).vals
        big == {v \in Range(old) : ~IsNull(v) /\ GroupSize(old, v) >= 2}
    IN /\ \A i \in 1..Len(new) : ~IsNull(new[i]) => GroupSize(new, new[i]) = 1
       /\ \A i \in 1..Len(old) :
            /\ old[i] \in big => input.index[i] \notin Range(df.index)
            /\ old[i] \notin big => input.index[i] \in Range(df.index)
       /\ df = SelectRows(input, [i \in 1..Len(old) |-> input.index[i] \in Range(df.index)])
       /\ NRows(input) - NRows(df) = SumOver([v \in big |-> GroupSize(old, v)], big)

\* A group of three rows went whole while a row with a single identifier stayed.
RowDedupWitness ==
  /\ op = "remove_row_duplicates"
  /\ NRows(input) = 4
  /\ NRows(df) = 1
  /\ ~IsNull(Col(df, frn_adjusted).vals[1])

-----------------------------------------------------------------------------
(* Correlated-column pruning on its own *)

RemoveCorrelatedRaw ==
  /\ op = "init"
  /\ UniqueNames(df)
  /\ LET done == CorrLoop(df, cfg.corr_threshold)
     IN df' = done.df /\ picks' = done.picks
  /\ op' = "remove_correlated_raw"
  /\ UNCHANGED <<input, cfg, arg, pc, log>>

CorrMaxRows == 3
CorrNames == <<cost, <<"a">>, <<"b">>>>
CorrVals == {Null, Num(1), Num(2)}
CorrThresholds == {<<9, 10>>, <<1, 2>>}

\* Float columns under CorrNames, after an identifier column that is no float.
CorrFrame(n, cells) ==
  Frame([i \in 1..n |-> i],
        << Column(frn_adjusted, "int64", [i \in 1..n |-> Num(i)]) >>
        \o [c \in 1..Len(CorrNames) |->
              Column(CorrNames[c], "float64", [r \in 1..n |-> cells[c][r]])])

\* Every filling of the float columns; the last one has no missing value.
CorrInputs(n) ==
  {CorrFrame(n, cells) :
     cells \in {f \in [1..Len(CorrNames) -> [1..n -> CorrVals]] :
                  \A r \in 1..n : ~IsNull(f[Len(CorrNames)][r])}}

CorrInit ==
  \E d \in CorrInputs(CorrMaxRows), th \in CorrThresholds :
    Start(d, [DefaultCfg EXCEPT !.corr_threshold = th])
CorrNext == RemoveCorrelatedRaw
CorrSpec == CorrInit /\ [][CorrNext]_vars

\* C1: of a pair of float columns at or above corr_threshold whose counts of
\* missing values differ, the column chosen to be dropped is the one with
\* strictly more missing values.
PrunesColumnWithMoreNulls ==
  op = "remove_correlated_raw" =>
    \A k \in 1..Len(picks) :
      LET dropped == Col(input, picks[k].colname)
          other == Col(input, picks[k].othercolname)
      IN null_count(dropped) # null_count(other) =>
           null_count(dropped) > null_count(other)

\* C10: after remove_correlated_raw no two float columns that remain were at
\* or above corr_threshold in the correlation matrix of the columns the pass
\* started with.
NoCorrelatedPairRemains ==
  op = "remove_correlated_raw" =>
    \A a, b \in 1..Len(df.cols) :
      (a # b /\ df.cols[a].dtype = "float64" /\ df.cols[b].dtype = "float64") =>
        ~HighCorr(Col(input, df.cols[a].name), Col(input, df.cols[b].name),
                  cfg.corr_threshold)

\* A pair at or above the threshold came up whose chosen column an earlier
\* pair had already removed.
CorrRevisitWitness ==
  /\ op = "remove_correlated_raw"
  /\ \E k \in 1..Len(picks) : \E j \in 1..(k-1) : picks[j].colname = picks[k].colname
  /\ Len(FloatCols(df)) >= 1

-----------------------------------------------------------------------------
(* Mostly-null column removal on its own *)

RemoveMostlyNulls ==
  /\ op = "init"
  /\ UniqueNames(df)
  /\ ~SummaryRaises(df)
  /\ df' = remove_mostly_nulls(df, cfg.null_threshold)
  /\ op' = "remove_mostly_nulls"
  /\ UNCHANGED <<input, cfg, arg, picks, pc, log>>

NullMaxRows == 4
NullThresholds == {<<37, 50>>, <<1, 2>>, <<1, 1>>}

\* Columns cost and fiber_type have nulls in any rows, column b in its first k.
NullFrame(n, cells, k) ==
  Frame([i \in 1..n |-> i],
        << Column(cost, "float64",
                  [r \in 1..n |-> IF cells[1][r] THEN Null ELSE Num(r)]),
           Column(fiber_type, "object",
                  [r \in 1..n |-> IF cells[2][r] THEN Null ELSE Str(<<"a">>)]),
           Column(<<"b">>, "float64",
                  [r \in 1..n |-> IF r <= k THEN Null ELSE Num(1)]) >>)

\* The frames of 1 to m rows.
NullInputs(m) ==
  UNION {{NullFrame(n, cells, k) : cells \in [1..2 -> [1..n -> BOOLEAN]], k \in 0..n} :
         n \in 1..m}

NullInit ==
  \E d \in NullInputs(NullMaxRows), th \in NullThresholds :
    Start(d, [DefaultCfg EXCEPT !.null_threshold = th])
NullNext == RemoveMostlyNulls
NullSpec == NullInit /\ [][NullNext]_vars

\* The null fraction of column c of frame d, compared with th[1] / th[2].
NullFractionBelow(d, c, th) == null_count(c) * th[2] < th[1] * NRows(d)
NullFractionIs(d, c, th) == null_count(c) * th[2] = th[1] * NRows(d)

\* C8: after remove_mostly_nulls a column is there if and only if its null
\* fraction was strictly below null_threshold (one exactly at the threshold is
\* gone), and the columns that are there keep their values and their order.
KeepsColumnsBelowNullThreshold ==
  op = "remove_mostly_nulls" =>
    /\ \A c \in 1..Len(input.cols) :
         HasCol(df, input.cols[c].name) <=>
           NullFractionBelow(input, input.cols[c], cfg.null_threshold)
    /\ \A c \in 1..Len(input.cols) :
         NullFractionIs(input, input.cols[c], cfg.null_threshold) =>
           ~HasCol(df, input.cols[c].name)
    /\ df.index = input.index
    /\ df.cols = SelectSeq(input.cols, LAMBDA c : HasCol(df, c.name))

\* The middle column sat exactly at the threshold and went; the columns on
\* either side of it stayed.
NullThresholdWitness ==
  /\ op = "remove_mostly_nulls"
  /\ NullFractionIs(input, input.cols[2], cfg.null_threshold)
  /\ null_count(input.cols[1]) > 0
  /\ Names(df) = <<input.cols[1].name, input.cols[3].name>>

-----------------------------------------------------------------------------
(* Float coercion on its own *)

ConvertFloats(exclusions) ==
  /\ op = "init"
  /\ UniqueNames(df)
  /\ \E cats \in exclusions :
       /\ df' = convert_floats(df, cats)
       /\ arg' = cats
  /\ op' = "convert_floats"
  /\ UNCHANGED <<input, cfg, picks, pc, log>>

FloatMaxRows == 2
FloatVals == {Null, Str(<<"2">>), Str(<<"x">>)}
FloatExclusions == {cat_cols, <<fiber_type, <<"b">>>>}

\* Three free columns between an integer column and a column of cat_cols
\* that holds numerals.
FloatFrame(n, cells) ==
  Frame([i \in 1..n |-> i],
        << Column(frn_adjusted, "int64", [r \in 1..n |-> Num(r)]),
           Column(<<"a">>, "object", [r \in 1..n |-> cells[1][r]]),
           Column(cost, "object", [r \in 1..n |-> cells[2][r]]),
           Column(<<"b">>, "object", [r \in 1..n |-> cells[3][r]]),
           Column(fiber_type, "object", [r \in 1..n |-> Str(<<"1", "2">>)]) >>)

FloatInputs(n) ==
  {FloatFrame(n, cells) : cells \in [1..3 -> [1..n -> FloatVals]]}

FloatInit == \E d \in FloatInputs(FloatMaxRows) : Start(d, DefaultCfg)
FloatNext == ConvertFloats(FloatExclusions)
FloatSpec == FloatInit /\ [][FloatNext]_vars

Unconvertible(c) == \E r \in 1..Len(c.vals) : c.vals[r].t = "str" /\ ~Parses(c.vals[r].s)

\* C9: convert_floats goes through with an unconvertible column in the
\* frame: that column is left exactly as it was, every other column outside
\* the exclusion list, before or after it, is float, cell by cell the float of
\* what it held, and the columns of the exclusion list are as they were.
FloatFailureIsLocal ==
  op = "convert_floats" =>
       /\ Len(df.cols) = Len(input.cols)
       /\ df.index = input.index
       /\ \A c \in 1..Len(input.cols) :
            LET old == input.cols[c]
                new == df.cols[c]
            IN IF old.name \in Range(arg) \/ Unconvertible(old)
                 THEN new = old
                 ELSE /\ new.name = old.name
                      /\ new.dtype = "float64"
                      /\ \A r \in 1..Len(old.vals) :
                           new.vals[r] = IF old.vals[r].t = "str"
                                           THEN Num(ParseFloat(old.vals[r].s))
                                           ELSE old.vals[r]

\* The middle free column could not be converted and is as it was; the free
\* columns before and after it are float.
FloatFailureWitness ==
  /\ op = "convert_floats"
  /\ arg = cat_cols
  /\ Unconvertible(input.cols[3])
  /\ df.cols[3] = input.cols[3]
  /\ df.cols[2].dtype = "float64"
  /\ df.cols[4].dtype = "float64"
  /\ df.cols[4].vals[1] = Num(2)

-----------------------------------------------------------------------------
(* Duplicate-column removal on its own *)

DupMaxRows == 2
DupNames == << <<"b">>, <<"a">>, cost >>
DupDtypes == {"float64", "object"}
DupVals(dtype) == IF dtype = "float64" THEN {Null, Num(1)} ELSE {Null, Str(<<"x">>)}

DupColumns(name, n) ==
  UNION {{Column(name, dtype, vals) : vals \in [1..n -> DupVals(dtype)]} :
           dtype \in DupDtypes}

DupInputs(n) ==
  {Frame([i \in 1..n |-> i], <<c1, c2, c3>>) :
     c1 \in DupColumns(DupNames[1], n),
     c2 \in DupColumns(DupNames[2], n),
     c3 \in DupColumns(DupNames[3], n)}

DupInit == \E d \in DupInputs(DupMaxRows) : Start(d, DefaultCfg)
DupNext == RemoveColumnDuplicates
DupSpec == DupInit /\ [][DupNext]_vars

\* Columns a and b of the input hold the same values row by row, as the code
\* compares them: the same dtype, and lists that compare equal.
SameValues(a, b) ==
  /\ a # b
  /\ input.cols[a].dtype = input.cols[b].dtype
  /\ ListEq(input.cols[a].dtype, input.cols[a].vals, input.cols[b].vals)

Survives(c) == HasCol(df, input.cols[c].name)

\* The place of column c in the order the dictionary listed the keys.
KeyPlace(c) == CHOOSE i \in 1..Len(arg) : arg[i] = c

\* C6 as stated: of columns with the same values the later in the column
\* order survives and the earlier goes; of a run, only the last.
LaterColumnSurvives ==
  op = "remove_column_duplicates" =>
    \A c \in 1..Len(input.cols) :
      (\E b \in 1..Len(input.cols) : SameValues(c, b)) =>
        (Survives(c) <=> \A b \in 1..Len(input.cols) : SameValues(c, b) => b < c)

\* C6 as the code has it: of columns with the same values exactly one
\* survives, the one the dictionary of its dtype group lists last; a column
\* with no equal survives.
LastKeySurvives ==
  op = "remove_column_duplicates" =>
    /\ \A c \in 1..Len(input.cols) :
         Survives(c) <=>
           \A b \in 1..Len(input.cols) : SameValues(c, b) => KeyPlace(b) < KeyPlace(c)
    /\ df.cols = SelectSeq(input.cols, LAMBDA c : HasCol(df, c.name))

\* Three equal columns, and the survivor is the first of them in the frame.
DupRunWitness ==
  /\ op = "remove_column_duplicates"
  /\ SameValues(1, 2)
  /\ SameValues(2, 3)
  /\ Names(df) = <<input.cols[1].name>>

-----------------------------------------------------------------------------
(* Dummy encoding on its own *)

ConvertDummies(lists) ==
  /\ op = "init"
  /\ UniqueNames(df)
  /\ \E cols \in lists :
       /\ \A i \in 1..Len(cols) : HasCol(df, cols[i])
       /\ \A i \in 1..Len(cols) :
            \A r \in 1..NRows(df) : Col(df, cols[i]).vals[r].t \in {"null", "str"}
       /\ df' = convert_dummies(df, cols, cfg.max_categories)
       /\ arg' = cols
  /\ op' = "convert_dummies"
  /\ UNCHANGED <<input, cfg, picks, pc, log>>

DumMaxRows == 2
DumMaxCategories == 2
DumVals == {Null, Str(<<"A", " ", " ", "b">>), Str(<<"a", "/", "b">>), Str(<<"a">>)}
DumLists == {<<fiber_type, postal_cd>>, <<postal_cd>>}

DumFrame(n, cells) ==
  Frame([i \in 1..n |-> i],
        << Column(frn_adjusted, "int64", [r \in 1..n |-> Num(r)]),
           Column(fiber_type, "object", [r \in 1..n |-> cells[1][r]]),
           Column(postal_cd, "object", [r \in 1..n |-> cells[2][r]]) >>)

DumInputs(n) ==
  {DumFrame(n, cells) : cells \in [1..2 -> [1..n -> DumVals]]}

DumInit ==
  \E d \in DumInputs(DumMaxRows), m \in 1..DumMaxCategories :
    Start(d, [DefaultCfg EXCEPT !.max_categories = m])
DumNext == ConvertDummies(DumLists)
DumSpec == DumInit /\ [][DumNext]_vars

\* The listed column as the loop leaves it before the cardinality check.
Normalized(col) == Col(NormalizeCols(input, arg), col)

\* The columns of df that are indicators of listed column col, lv being the
\* distinct values of the column.
IndicatorsAmong(col, lv) ==
  {k \in 1..Len(df.cols) :
     \E l \in lv : df.cols[k].name = SplitHead(col) \o <<"_">> \o l}

IndicatorsOf(col) == IndicatorsAmong(col, Levels(Normalized(col)))

CleanLabel(w) == \A i \in 1..Len(w) : ~IsUpper(w[i]) /\ w[i] # " " /\ w[i] # "/"

\* What C7 says of listed column col: nc the column as normalized, lv its
\* distinct values, ind its indicators in df.
ListedColumnOutcome(col, nc, lv, ind) ==
  IF Cardinality(lv) <= cfg.max_categories \/ col \in {postal_cd, connect_type}
    THEN /\ ~HasCol(df, col)
         /\ Cardinality(ind) = Cardinality(lv)
         /\ \A k \in ind :
              /\ CleanLabel(df.cols[k].name)
              /\ df.cols[k].dtype = "uint8"
              /\ \A r \in 1..NRows(df) :
                   (df.cols[k].vals[r] = Num(1)) <=>
                     /\ ~IsNull(nc.vals[r])
                     /\ df.cols[k].name = SplitHead(col) \o <<"_">> \o nc.vals[r].s
    ELSE /\ HasCol(df, col)
         /\ Col(df, col) = nc
         /\ ind = {}

OtherColumnsOutcome(ind) ==
  \A k \in (1..Len(df.cols)) \ ind :
    /\ HasCol(input, df.cols[k].name)
    /\ df.cols[k].name \notin Range(arg) => df.cols[k] = Col(input, df.cols[k].name)

DummiesAtLimitWitness ==
  /\ op = "convert_dummies"
  /\ cfg.max_categories = 2
  /\ Cardinality(Levels(Normalized(fiber_type))) = 2
  /\ ~HasCol(df, fiber_type)

-----------------------------------------------------------------------------
(* applyall_raw, applyall_predict: the chained calls, one stage at a time *)

applyall_raw ==
  << "remove_row_duplicates", "remove_column_nulls", "remove_column_duplicates",
     "remove_no_var", "remove_drops_raw", "rename_col", "convert_floats_raw",
     "convert_yn_raw", "convert_dummies_raw", "remove_mostly_nulls",
     "remove_correlated_raw" >>

\* The chain of applyall_predict with remove_no_var left in.
applyall_predict_with_no_var ==
  << "remove_row_duplicates", "remove_column_nulls", "remove_column_duplicates",
     "remove_no_var", "remove_drops_raw", "rename_col", "convert_floats_raw",
     "convert_yn_raw", "convert_dummies_raw" >>

applyall_predict ==
  << "remove_row_duplicates", "remove_column_nulls", "remove_column_duplicates",
     "remove_drops_raw", "rename_col", "convert_floats_raw", "convert_yn_raw",
     "convert_dummies_raw" >>

Stages(mode) == IF mode = "raw" THEN applyall_raw ELSE applyall_predict

\* The call at position pc.at of the chain is the one named.
At(name) ==
  /\ pc.mode \in {"raw", "predict"}
  /\ pc.at <= Len(Stages(pc.mode))
  /\ Stages(pc.mode)[pc.at] = name

\* The call runs on self.df and leaves its result there.
Stage(name, result) ==
  /\ At(name)
  /\ df' = result
  /\ op' = name
  /\ log' = Append(log, name)
  /\ pc' = [pc EXCEPT !.at = @ + 1]
  /\ UNCHANGED <<input, cfg, arg>>

StageRemoveRowDuplicates ==
  /\ Stage("remove_row_duplicates", remove_row_duplicates(df))
  /\ UNCHANGED picks
StageRemoveColumnNulls ==
  /\ Stage("remove_column_nulls", remove_column_nulls(df))
  /\ UNCHANGED picks
StageRemoveColumnDuplicates ==
  /\ At("remove_column_duplicates")
  /\ \E order \in KeyOrders(Len(df.cols)) :
       Stage("remove_column_duplicates", remove_column_duplicates(df, order))
  /\ UNCHANGED picks
StageRemoveNoVar ==
  /\ Stage("remove_no_var", remove_no_var(df))
  /\ UNCHANGED picks
StageRemoveDropsRaw ==
  /\ Stage("remove_drops_raw", remove_drops_raw(df))
  /\ UNCHANGED picks
StageRenameCol ==
  /\ Stage("rename_col", rename_col(df, purpose_adj, purpose))
  /\ UNCHANGED picks
StageConvertFloatsRaw ==
  /\ Stage("convert_floats_raw", convert_floats_raw(df))
  /\ UNCHANGED picks
StageConvertYnRaw ==
  /\ Stage("convert_yn_raw", convert_yn_raw(df))
  /\ UNCHANGED picks
StageConvertDummiesRaw ==
  /\ Stage("convert_dummies_raw", convert_dummies_raw(df, cfg.max_categories))
  /\ UNCHANGED picks
StageRemoveMostlyNulls ==
  /\ ~SummaryRaises(df)
  /\ Stage("remove_mostly_nulls", remove_mostly_nulls(df, cfg.null_threshold))
  /\ UNCHANGED picks
StageRemoveCorrelatedRaw ==
  /\ Stage("remove_correlated_raw", remove_correlated_raw(df, cfg.corr_threshold))
  /\ picks' = CorrLoop(df, cfg.corr_threshold).picks

\* return self
Return ==
  /\ pc.mode \in {"raw", "predict"}
  /\ pc.at = Len(Stages(pc.mode)) + 1
  /\ ~pc.returned
  /\ pc' = [pc EXCEPT !.returned = TRUE]
  /\ UNCHANGED <<df, input, cfg, op, arg, picks, log>>

PipeNext ==
  \/ StageRemoveRowDuplicates
  \/ StageRemoveColumnNulls
  \/ StageRemoveColumnDuplicates
  \/ StageRemoveNoVar
  \/ StageRemoveDropsRaw
  \/ StageRenameCol
  \/ StageConvertFloatsRaw
  \/ StageConvertYnRaw
  \/ StageConvertDummiesRaw
  \/ StageRemoveMostlyNulls
  \/ StageRemoveCorrelatedRaw
  \/ Return

PipeMaxRows == 3

Single == <<"S", "i", "n", "g", "l", "e">>
Multi == <<"M", "u", "l", "t", "i">>
\* The rows a frame draws from: frn_adjusted, basic_firewall_protection,
\* fiber_type, cost, purpose, purpose_adj.
PipeRows ==
  << <<Num(1), Str(Yes), Str(Single), Num(100), Str(<<"x">>), Str(<<"W", "A", "N">>)>>,
     <<Num(1), Str(No), Str(Single), Num(100), Str(<<"x">>), Str(<<"W", "A", "N">>)>>,
     <<Num(2), Str(Yes), Str(Multi), Num(200), Str(<<"y">>), Str(<<"I", "S", "P">>)>>,
     <<Num(3), Str(No), Str(Multi), Num(300), Str(<<"y">>), Str(<<"W", "A", "N">>)>> >>

PipeColumn(name, dtype, field, rows) ==
  Column(name, dtype, [r \in 1..Len(rows) |-> PipeRows[rows[r]][field]])

\* The frame of the rows chosen: with basic_firewall_protection, or with the
\* two purpose columns in its place.
PipeFrame(rows, wide) ==
  Frame([r \in 1..Len(rows) |-> r],
        IF wide
          THEN << PipeColumn(frn_adjusted, "int64", 1, rows),
                  PipeColumn(fiber_type, "object", 3, rows),
                  PipeColumn(cost, "float64", 4, rows),
                  PipeColumn(purpose, "object", 5, rows),
                  PipeColumn(purpose_adj, "object", 6, rows) >>
          ELSE << PipeColumn(frn_adjusted, "int64", 1, rows),
                  PipeColumn(basic_firewall_protection, "object", 2, rows),
                  PipeColumn(fiber_type, "object", 3, rows),
                  PipeColumn(cost, "float64", 4, rows) >>)

PipeInputs(n) ==
  {PipeFrame(rows, wide) : rows \in [1..n -> 1..Len(PipeRows)], wide \in BOOLEAN}

PipeInit ==
  \E d \in PipeInputs(PipeMaxRows), mode \in {"raw", "predict"} :
    /\ df = d
    /\ input = d
    /\ cfg = DefaultCfg
    /\ op = "init"
    /\ arg = <<>>
    /\ picks = <<>>
    /\ pc = [mode |-> mode, at |-> 1, returned |-> FALSE]
    /\ log = <<>>

PipeSpec == PipeInit /\ [][PipeNext]_vars

\* The dataset of the end-to-end example.
Example == PipeFrame(<<1, 2, 3>>, FALSE)

fiber_multi == <<"f", "i", "b", "e", "r", "_", "m", "u", "l", "t", "i">>

Ran(name) == \E k \in 1..Len(log) : log[k] = name

RawOrder ==
  << "remove_row_duplicates", "remove_column_nulls", "remove_column_duplicates",
     "remove_no_var", "remove_drops_raw", "rename_col", "convert_floats_raw",
     "convert_yn_raw", "convert_dummies_raw", "remove_mostly_nulls",
     "remove_correlated_raw" >>

PredictOmits == {"remove_no_var", "remove_mostly_nulls", "remove_correlated_raw"}

OrderOf(mode) ==
  IF mode = "raw" THEN RawOrder
  ELSE SelectSeq(RawOrder, LAMBDA s : s \notin PredictOmits)

-----------------------------------------------------------------------------
(* The operations in any order *)

OpsMaxOps == 2
OpsRenames == {<<purpose_adj, purpose>>, <<cost, purpose>>, <<cost, frn_adjusted>>}
OpsLists == {<<fiber_type>>, <<fiber_type, fiber_sub_type>>}

\* One operation, on a frame whose column names are distinct.
Apply(name, result) ==
  /\ UniqueNames(df)
  /\ Len(log) < OpsMaxOps
  /\ df' = result
  /\ op' = name
  /\ log' = Append(log, name)
  /\ UNCHANGED <<input, cfg, arg, picks, pc>>

OpsNext ==
  \/ Apply("remove_row_duplicates", remove_row_duplicates(df))
  \/ Apply("remove_column_nulls", remove_column_nulls(df))
  \/ /\ Len(log) < OpsMaxOps
     /\ \E order \in KeyOrders(Len(df.cols)) :
          Apply("remove_column_duplicates", remove_column_duplicates(df, order))
  \/ Apply("remove_no_var", remove_no_var(df))
  \/ Apply("remove_drops_raw", remove_drops_raw(df))
  \/ \E r \in OpsRenames : Apply("rename_col", rename_col(df, r[1], r[2]))
  \/ Apply("convert_floats_raw", convert_floats_raw(df))
  \/ Apply("convert_yn_raw", convert_yn_raw(df))
  \/ \E cols \in OpsLists :
       /\ \A i \in 1..Len(cols) : HasCol(df, cols[i])
       /\ Apply("convert_dummies", convert_dummies(df, cols, cfg.max_categories))
  \/ Apply("convert_dummies_raw", convert_dummies_raw(df, cfg.max_categories))
  \/ ~SummaryRaises(df)
       /\ Apply("remove_mostly_nulls", remove_mostly_nulls(df, cfg.null_threshold))
  \/ Apply("remove_correlated_raw", remove_correlated_raw(df, cfg.corr_threshold))

OpsVals == {Str(Single), Str(Multi)}

OpsFrame(cells) ==
  Frame(<<1, 2>>,
        << Column(frn_adjusted, "int64", <<Num(1), Num(2)>>),
           Column(fiber_type, "object", cells[1]),
           Column(fiber_sub_type, "object", cells[2]),
           Column(cost, "float64", <<Num(100), Num(200)>>) >>)

OpsInputs(vals) == {OpsFrame(cells) : cells \in [1..2 -> [1..2 -> vals]]}

OpsInit == \E d \in OpsInputs(OpsVals) : Start(d, DefaultCfg)
OpsSpec == OpsInit /\ [][OpsNext]_vars

\* C4: from a frame whose column names are distinct, the column names are
\* distinct after any operation.
NamesStayUnique == UniqueNames(df)

====
